---- MODULE Spec2Model ----
(***************************************************************************)
(* Model of src/NotificationSender.py.                                     *)
(*  - Spec, PlainSpec, FairPlainSpec: the parallel fan-out send engine,    *)
(*    send_single_notification, send_notifications_parallel and its nested *)
(*    send_batch, run on a ThreadPoolExecutor of max_workers threads.      *)
(*  - HandlerSpec: the except FirebaseError clause of                      *)
(*    send_single_notification, on one error.                              *)
(*  - OperatorSpec, SharedSpec: the Quick Send and bulk send buttons of    *)
(*    the operator sessions, validate_token and the campaign store, with   *)
(*    a whole send run taken as one step.                                  *)
(*  - CohortSpec, BulkCohortSpec: the buttons of the Cohorts tab on the    *)
(*    cohort store, alone and together with the bulk send queue.           *)
(*  - CallSpec: single calls of detect_token_type, of personalize_text     *)
(*    and of a fetch followed by the validation loop.                      *)
(***************************************************************************)
EXTENDS Integers, Sequences, FiniteSets, Bags, TLC

(* ---------------------------- bounds ----------------------------------- *)
\* longest token list of a run with tokens of every channel (Spec)
MaxTokens == 2
\* longest token list of a run with tokens of one channel (PlainSpec)
MaxPlainTokens == 3
MaxBatch == 2
MaxWorkers == 2
\* most send runs the operator sessions start, most queued bulk notifications
\* of a session, and the latest second of the wall clock
MaxCampaigns == 2
MaxQueue == 1
MaxClock == 1
\* most lines of the text of the cohort editor
MaxLines == 3
\* characters of an agent name
MaxName == 3

(* --------------------------- program constants -------------------------- *)
\* validate_token: 10 < len(token) < 4096
MinLength == 10
MaxLength == 4096

(* ---------------------------- inputs ----------------------------------- *)
\* the channel tags detect_token_type can return
TokenTypes == {"ios", "android", "fcm", "unknown"}

\* the values of the "Force Platform" selectbox
ForcePlatforms == {"Auto-detect", "Android", "iOS"}

\* What one execution of the try body of send_single_notification can end in
\* (chosen by the environment at each send):
\*   ok            messaging.send returned a receipt
\*   unregistered  FirebaseError carrying a terminal signal
\*   unavailable   FirebaseError without any terminal signal
\*   apns_auth     FirebaseError "auth error from apns"
\*   exception     a non-Firebase Exception (personalize_text, payload
\*                 construction or the transport)
Responses == {"ok", "unregistered", "unavailable", "apns_auth", "exception"}

IsFirebaseError(r) == r \in {"unregistered", "unavailable", "apns_auth"}

\* A FirebaseError as the except clause sees it: error_code, and
\* error_message as the set of the phrases the clause looks for that occur
\* in it ("auth error from apns" cannot occur without "apns")
ErrorCodes == {"not_found", "unavailable"}

Phrases == {"invalid-registration-token", "unregistered", "auth error from apns",
            "apns", "auth error from web push service"}

FirebaseErrors ==
  {e \in [code : ErrorCodes, message : SUBSET Phrases] :
     "auth error from apns" \in e.message => "apns" \in e.message}

\* the FirebaseError each response of the engine's environment stands for
ErrorOf(r) ==
  IF r = "unregistered" THEN [code |-> "not_found", message |-> {"unregistered"}]
  ELSE IF r = "apns_auth"
    THEN [code |-> "unavailable", message |-> {"auth error from apns", "apns"}]
  ELSE [code |-> "unavailable", message |-> {}]

HasTerminalSignal(e) ==
  \/ "invalid-registration-token" \in e.message
  \/ "unregistered" \in e.message
  \/ e.code = "not_found"

MentionsApns(e) ==
  "auth error from apns" \in e.message \/ "apns" \in e.message

IsChannelAuthError(e) ==
  \/ "auth error from apns" \in e.message
  \/ "auth error from web push service" \in e.message

None == <<>>

ZeroSummary ==
  [success |-> 0, pruned |-> 0, errors |-> 0,
   ios_success |-> 0, android_success |-> 0, fcm_success |-> 0]

SummaryKeys == DOMAIN ZeroSummary

(* ------------------------ send_single_notification --------------------- *)
\* variant: the override is not applied
EffectiveType_classified(token_type, forced) == token_type

\* platform override and choice of the platform branch of the message
EffectiveType(token_type, forced) ==
  IF forced = "Android" THEN "android"
  ELSE IF forced = "iOS" THEN "ios"
  ELSE token_type

\* variant: both platform blocks are attached to every message
MessageBranch_both(token_type, forced) == {"apns", "android"}

\* the platform blocks attached to the message built for the token
MessageBranch(token_type, forced) ==
  IF EffectiveType(token_type, forced) = "ios" THEN {"apns"} ELSE {"android"}

\* variant: should_prune is not reset for an authentication error of the
\* other channel
FirebaseErrorHandler_nosuppress(token_type, e) ==
  IF token_type = "ios" /\ MentionsApns(e)
    THEN <<"error", "iOS APNs authentication failed">>
  ELSE IF HasTerminalSignal(e)
    THEN <<"error", "Invalid/expired token detected (not pruned)">>
  ELSE <<"error", "FCM error">>

\* the except FirebaseError clause; token_type is the local variable, which
\* holds the overridden channel at this point
FirebaseErrorHandler(token_type, e) ==
  IF token_type = "ios" /\ MentionsApns(e)
    THEN <<"error", "iOS APNs authentication failed">>
  ELSE LET signalled == HasTerminalSignal(e)
           should_prune == IF token_type # "ios" /\ IsChannelAuthError(e)
                             THEN FALSE ELSE signalled
       IN IF should_prune
            THEN <<"error", "Invalid/expired token detected (not pruned)">>
            ELSE <<"error", "FCM error">>

\* variant: a terminal signal is returned with the error type "pruned"
send_single_notification_pruned(token_type, forced, r) ==
  IF r = "ok"
    THEN [raised |-> FALSE, success |-> TRUE, error_info |-> None]
  ELSE IF IsFirebaseError(r)
    THEN LET info == FirebaseErrorHandler(EffectiveType(token_type, forced), ErrorOf(r))
         IN [raised |-> FALSE, success |-> FALSE,
             error_info |-> IF info[2] = "Invalid/expired token detected (not pruned)"
                              THEN <<"pruned", info[2]>> ELSE info]
  ELSE [raised |-> FALSE, success |-> FALSE,
        error_info |-> <<"error", "Unexpected error">>]

\* the (success, error_info) part of the returned triple; raised = TRUE when
\* the call leaves send_single_notification by an exception instead, which
\* no response does: both except clauses return
send_single_notification(token_type, forced, r) ==
  IF r = "ok"
    THEN [raised |-> FALSE, success |-> TRUE, error_info |-> None]
  ELSE IF IsFirebaseError(r)
    THEN [raised |-> FALSE, success |-> FALSE,
          error_info |-> FirebaseErrorHandler(EffectiveType(token_type, forced),
                                              ErrorOf(r))]
  ELSE [raised |-> FALSE, success |-> FALSE,
        error_info |-> <<"error", "Unexpected error">>]

(* ------------------------------ state ---------------------------------- *)
VARIABLES
  tokens,          \* input list: tokens[k] is the token_type of the k-th tuple
  batch_size,      \* argument batch_size
  max_workers,     \* argument max_workers
  force_platform,  \* st.session_state["force_platform"]
  pc,              \* coordinator: "submit", "collect" or "done"
  i,               \* loop variable of the submission loop
  batch,           \* local variable batch (the slice last taken)
  futures,         \* the list futures, with each work item's progress
  yielded,         \* the futures as_completed has yielded, in that order
  summary,         \* running summary
  errors_list,     \* global error list
  completed,       \* local variable completed
  progress,        \* value shown by progress_bar, as <<numerator, denominator>>
  attempts,        \* per input position, the send attempts made for it
  doc_refs,        \* TRUE when the tuples carry doc.reference, FALSE when None
  directory,       \* acnAgents: per record, the tokens its fsmToken field holds
  handled,         \* one FirebaseError met by send_single_notification: the
                   \* token's channel, the override, the error and what the
                   \* except clause returned for it (None before it ran)
  call,            \* one call of detect_token_type, of personalize_text or of
                   \* a fetch followed by the validation loop: the arguments
                   \* and, once it has returned, what came back
  agents,          \* acnAgents as the fetch functions read it: cpId -> fsmToken
  cohorts_file,    \* content of COHORTS_FILE: cohort name -> list of cpIds
  campaigns_file,  \* content of CAMPAIGNS_FILE: the list of campaign records
  clock,           \* datetime.now(), in seconds
  session,         \* per operator session: where its script run is, its
                   \* st.session_state.bulk_notifications and the locals of
                   \* the save_campaign call it is in
  request,         \* the latest button press handled: its inputs, the
                   \* valid_tokens handed to send_notifications_parallel (None
                   \* if it was not called) and if save_campaign was called
  saved,           \* the campaign_data of the save_campaign calls that returned
  sends            \* number of send_notifications_parallel calls so far

engine_vars == <<tokens, batch_size, max_workers, force_platform, pc, i, batch,
                 futures, yielded, summary, errors_list, completed, progress,
                 attempts, doc_refs, directory>>

store_vars == <<agents, cohorts_file, campaigns_file, clock, session, request, saved, sends>>

app_vars == <<handled, call, store_vars>>

vars == <<engine_vars, app_vars>>

total_tokens == Len(tokens)

\* variant: the slice runs one position past hi
Slice_overlap(lo, hi) ==
  LET top == IF hi + 1 < Len(tokens) THEN hi + 1 ELSE Len(tokens)
  IN [k \in 1..(top - lo) |-> lo + k]

\* tokens[lo:hi] as the sequence of input positions lo+1 .. min(hi, len)
Slice(lo, hi) ==
  LET top == IF hi < total_tokens THEN hi ELSE total_tokens
  IN [k \in 1..(top - lo) |-> lo + k]

Running == {b \in DOMAIN futures : futures[b].state = "running"}

Pending == {b \in DOMAIN futures : futures[b].state = "pending"}

\* variant: a future counts as resolved as soon as its batch has started
Finished_early == {b \in DOMAIN futures : futures[b].state # "pending"}

Finished == {b \in DOMAIN futures : futures[b].state = "finished"}

Range(f) == {f[k] : k \in DOMAIN f}

\* the state at the with statement of send_notifications_parallel
Start ==
  /\ batch_size \in 1..MaxBatch
  /\ max_workers \in 1..MaxWorkers
  /\ pc = "submit"
  /\ i = 0
  /\ batch = None
  /\ futures = <<>>
  /\ yielded = <<>>
  /\ summary = ZeroSummary
  /\ errors_list = <<>>
  /\ completed = 0
  /\ progress = <<0, 1>>
  /\ attempts = [k \in 1..Len(tokens) |-> <<>>]
  /\ directory = [k \in 1..Len(tokens) |-> {k}]

\* nothing outside the run under study is going on
HandlerIdle == handled = None

CallIdle == call = None

StoreIdle ==
  /\ agents = <<>>
  /\ cohorts_file = <<>>
  /\ campaigns_file = <<>>
  /\ clock = 0
  /\ session = <<>>
  /\ request = None
  /\ saved = <<>>
  /\ sends = 0

AppIdle == HandlerIdle /\ CallIdle /\ StoreIdle

\* any token list of up to MaxTokens tokens, any platform override
Init ==
  /\ tokens \in UNION {[1..n -> TokenTypes] : n \in 0..MaxTokens}
  /\ force_platform \in ForcePlatforms
  /\ doc_refs = TRUE
  /\ Start
  /\ AppIdle

\* token lists of up to MaxPlainTokens android tokens, no platform override,
\* fetched by fetch_tokens_for_cpids or by fetch_all_tokens_directly
PlainInit ==
  /\ tokens \in UNION {[1..n -> {"android"}] : n \in 0..MaxPlainTokens}
  /\ force_platform = "Auto-detect"
  /\ doc_refs \in BOOLEAN
  /\ Start
  /\ AppIdle

(* ------------------------------ send_batch ----------------------------- *)
\* the try/except around the call in send_batch
GuardedSend(token_type, forced, r) ==
  LET res == send_single_notification(token_type, forced, r)
  IN IF res.raised
       THEN [success |-> FALSE, error_info |-> <<"error", "str(e)">>]
       ELSE [success |-> res.success, error_info |-> res.error_info]

\* variant: the errors counter is not incremented
CountOutcome_noerrors(batch_results, token_type, res) ==
  IF res.success
    THEN [batch_results EXCEPT
            !.success = @ + 1,
            !.ios_success = IF token_type = "ios" THEN @ + 1 ELSE @,
            !.fcm_success = IF token_type = "fcm" THEN @ + 1 ELSE @,
            !.android_success = IF token_type \notin {"ios", "fcm"} THEN @ + 1 ELSE @]
  ELSE batch_results

\* variant: an fcm success falls through to the android counter as well
CountOutcome_fallthrough(batch_results, token_type, res) ==
  IF res.success
    THEN [batch_results EXCEPT
            !.success = @ + 1,
            !.ios_success = IF token_type = "ios" THEN @ + 1 ELSE @,
            !.fcm_success = IF token_type = "fcm" THEN @ + 1 ELSE @,
            !.android_success = IF token_type # "ios" THEN @ + 1 ELSE @]
  ELSE [batch_results EXCEPT !.errors = @ + 1]

\* the counter update of one loop iteration
CountOutcome(batch_results, token_type, res) ==
  IF res.success
    THEN [batch_results EXCEPT
            !.success = @ + 1,
            !.ios_success = IF token_type = "ios" THEN @ + 1 ELSE @,
            !.fcm_success = IF token_type = "fcm" THEN @ + 1 ELSE @,
            !.android_success = IF token_type \notin {"ios", "fcm"} THEN @ + 1 ELSE @]
  ELSE IF res.error_info # None
    THEN IF res.error_info[1] = "pruned"
           THEN [batch_results EXCEPT !.pruned = @ + 1]
           ELSE [batch_results EXCEPT !.errors = @ + 1]
  ELSE [batch_results EXCEPT !.errors = @ + 1]

\* the error-list update of one loop iteration
RecordOutcome_prepend(batch_errors, token, res) ==
  IF res.success THEN batch_errors
  ELSE IF res.error_info # None
    THEN IF res.error_info[1] = "pruned"
           THEN batch_errors
           ELSE <<<<token, res.error_info[2]>>>> \o batch_errors
  ELSE <<<<token, "Unknown error - no error info returned">>>> \o batch_errors

\* batch_errors.append((token, error_msg)) for every outcome that is neither
\* a delivery nor "pruned"
RecordOutcome(batch_errors, token, res) ==
  IF res.success THEN batch_errors
  ELSE IF res.error_info # None
    THEN IF res.error_info[1] = "pruned"
           THEN batch_errors
           ELSE Append(batch_errors, <<token, res.error_info[2]>>)
  ELSE Append(batch_errors, <<token, "Unknown error - no error info returned">>)

\* variant: a token reported invalid is removed from its directory record
DirectoryAfter_prune(dir, doc_ref, token, res) ==
  IF doc_ref /\ ~res.success /\ res.error_info # None
     /\ res.error_info[2] = "Invalid/expired token detected (not pruned)"
    THEN [dir EXCEPT ![token] = @ \ {token}]
    ELSE dir

\* what one send does to the directory: send_single_notification receives
\* doc_ref and never uses it, nor does send_batch
DirectoryAfter(dir, doc_ref, token, res) == dir

\* variant: a failed send is sent again
NextPos_retry(pos, len, res) == IF res.success THEN pos + 1 ELSE pos

\* variant: the loop is left at the first failed send
NextPos_abort(pos, len, res) == IF res.success THEN pos + 1 ELSE len

\* the for loop of send_batch moves on to the next tuple whatever the outcome
NextPos(pos, len, res) == pos + 1

(* ------------------------------- executor ------------------------------ *)
\* variant: the pool starts a thread for every work item
WorkerAvailable_unbounded == TRUE

\* variant: the pool keeps one thread fewer than max_workers
WorkerAvailable_starved == Cardinality(Running) < max_workers - 1

\* a free worker thread may take a work item
WorkerAvailable == Cardinality(Running) < max_workers

\* for i in range(0, len(tokens), batch_size): slice and submit
Submit ==
  /\ pc = "submit"
  /\ i < total_tokens
  /\ batch' = Slice(i, i + batch_size)
  /\ futures' = Append(futures,
                  [batch_tokens |-> Slice(i, i + batch_size), state |-> "pending",
                   pos |-> 0, batch_results |-> ZeroSummary, batch_errors |-> <<>>])
  /\ i' = i + batch_size
  /\ UNCHANGED <<tokens, batch_size, max_workers, force_platform, pc, yielded,
                 summary, errors_list, completed, progress, attempts,
                 doc_refs, directory>>
  /\ UNCHANGED app_vars

\* the submission loop ends; the coordinator enters as_completed
EndSubmit ==
  /\ pc = "submit"
  /\ i >= total_tokens
  /\ pc' = "collect"
  /\ UNCHANGED <<tokens, batch_size, max_workers, force_platform, i, batch, futures,
                 yielded, summary, errors_list, completed, progress, attempts,
                 doc_refs, directory>>
  /\ UNCHANGED app_vars

\* a worker thread takes the oldest queued work item and enters send_batch
StartBatch(b) ==
  /\ b \in Pending
  /\ \A c \in Pending : b <= c
  /\ WorkerAvailable
  /\ futures' = [futures EXCEPT ![b].state = "running"]
  /\ UNCHANGED <<tokens, batch_size, max_workers, force_platform, pc, i, batch,
                 yielded, summary, errors_list, completed, progress, attempts,
                 doc_refs, directory>>
  /\ UNCHANGED app_vars

\* variant: the batch is walked from its last tuple to its first
NextToken_backwards(batch_tokens, pos) == batch_tokens[Len(batch_tokens) - pos]

\* for ... in batch_tokens: the tuple the iteration after pos iterations takes
NextToken(batch_tokens, pos) == batch_tokens[pos + 1]

\* one iteration of the for loop of send_batch, on the next token of batch b;
\* after the last one send_batch returns and the future resolves
SendOne(b, r) ==
  /\ b \in Running
  /\ futures[b].pos < Len(futures[b].batch_tokens)
  /\ LET f == futures[b]
         token == NextToken(f.batch_tokens, f.pos)
         token_type == tokens[token]
         res == GuardedSend(token_type, force_platform, r)
     IN /\ attempts' = [attempts EXCEPT ![token] =
                          Append(@, [branch |-> MessageBranch(token_type, force_platform),
                                     response |-> r])]
        /\ futures' = [futures EXCEPT
                         ![b].batch_results = CountOutcome(@, token_type, res),
                         ![b].batch_errors = RecordOutcome(@, token, res),
                         ![b].pos = NextPos(@, Len(f.batch_tokens), res),
                         ![b].state = IF NextPos(f.pos, Len(f.batch_tokens), res)
                                           >= Len(f.batch_tokens)
                                      THEN "finished" ELSE "running"]
        /\ directory' = DirectoryAfter(directory, doc_refs, token, res)
  /\ UNCHANGED <<tokens, batch_size, max_workers, force_platform, pc, i, batch,
                 yielded, summary, errors_list, completed, progress,
                 doc_refs>>
  /\ UNCHANGED app_vars

(* ------------------------------ coordinator ---------------------------- *)
\* variant: the running summary is overwritten instead of added to
MergeSummary_overwrite(total, batch_results) ==
  [key \in SummaryKeys |-> batch_results[key]]

\* for key in summary: summary[key] += batch_results[key]
MergeSummary(total, batch_results) ==
  [key \in SummaryKeys |-> total[key] + batch_results[key]]

\* completed += len(batch): batch is the local variable of the submission
\* loop, the last slice taken, whichever future b has just been yielded
CompletedAfter(done, b) == done + Len(batch)

\* one iteration of the as_completed loop, for a resolved future
Merge(b) ==
  /\ pc = "collect"
  /\ b \in Finished \ Range(yielded)
  /\ yielded' = Append(yielded, b)
  /\ summary' = MergeSummary(summary, futures[b].batch_results)
  /\ errors_list' = errors_list \o futures[b].batch_errors
  /\ completed' = CompletedAfter(completed, b)
  /\ progress' = <<CompletedAfter(completed, b), total_tokens>>
  /\ UNCHANGED <<tokens, batch_size, max_workers, force_platform, pc, i, batch,
                 futures, attempts,
                 doc_refs, directory>>
  /\ UNCHANGED app_vars

\* as_completed is exhausted, the with block shuts the pool down, return
Return ==
  /\ pc = "collect"
  /\ Range(yielded) = DOMAIN futures
  /\ pc' = "done"
  /\ UNCHANGED <<tokens, batch_size, max_workers, force_platform, i, batch, futures,
                 yielded, summary, errors_list, completed, progress, attempts,
                 doc_refs, directory>>
  /\ UNCHANGED app_vars

Next ==
  \/ Submit
  \/ EndSubmit
  \/ \E b \in DOMAIN futures : StartBatch(b)
  \/ \E b \in DOMAIN futures, r \in Responses : SendOne(b, r)
  \/ \E b \in DOMAIN futures : Merge(b)
  \/ Return

Spec == Init /\ [][Next]_vars

PlainSpec == PlainInit /\ [][Next]_vars

\* every thread that can take a step eventually takes one
FairPlainSpec == PlainInit /\ [][Next]_vars /\ WF_vars(Next)

(* ------------------- the except FirebaseError clause -------------------- *)
\* no send run is under way
EngineIdle ==
  /\ tokens = <<>>
  /\ force_platform = "Auto-detect"
  /\ doc_refs = FALSE
  /\ batch_size = 1
  /\ max_workers = 1
  /\ pc = "submit"
  /\ i = 0
  /\ batch = None
  /\ futures = <<>>
  /\ yielded = <<>>
  /\ summary = ZeroSummary
  /\ errors_list = <<>>
  /\ completed = 0
  /\ progress = <<0, 1>>
  /\ attempts = <<>>
  /\ directory = <<>>

\* messaging.send has raised e for a token detect_token_type tagged
\* token_type, under the override forced
HandlerInit ==
  /\ handled \in [token_type : TokenTypes, forced : ForcePlatforms,
                  e : FirebaseErrors, error_info : {None}]
  /\ CallIdle
  /\ EngineIdle
  /\ StoreIdle

\* lines 316-322 have replaced token_type; the except clause returns
Handle ==
  /\ handled.error_info = None
  /\ handled' = [handled EXCEPT !.error_info =
                   FirebaseErrorHandler(EffectiveType(handled.token_type, handled.forced),
                                        handled.e)]
  /\ UNCHANGED <<engine_vars, call, store_vars>>

HandlerNext == Handle

HandlerSpec == HandlerInit /\ [][HandlerNext]_vars

(* ------------- Quick Send, bulk send and the campaign store ------------- *)
Sessions == {"s1", "s2"}

CpIds == {"cp1", "cp2"}

CohortNames == {"A", "B"}

\* cohorts = load_cohorts(), at the top of the script run of a tab: the
\* dictionary cohort name -> list of cpIds
cohorts == cohorts_file

\* a store of two cohorts of one agent each
TwoCohorts == [A |-> <<"cp1">>, B |-> <<"cp2">>]

\* A string, as far as validate_token and the fetch functions can tell:
\* len is its length without leading and trailing whitespace, pad tells if
\* it has any, ws is the whitespace inside: none, a space, or a tab/newline
\* only
Strings ==
  {[len |-> 0, pad |-> TRUE, ws |-> "none"],
   [len |-> MinLength + 1, pad |-> TRUE, ws |-> "none"]}
    \cup [len : {MinLength, MinLength + 1, MaxLength}, pad : {FALSE},
          ws : {"none", "space", "tab"}]

\* the values of an agent's fsmToken field: a string, or None when the
\* field is missing
FsmTokens == Strings \cup {None}

\* str.strip()
strip(t) == [t EXCEPT !.pad = FALSE]

\* the tuples one acnAgents document contributes: raw.strip() when raw is a
\* string and raw.strip() is not empty
TokensOf(cpid) ==
  IF agents[cpid] # None /\ strip(agents[cpid]).len > 0
    THEN <<strip(agents[cpid])>>
    ELSE <<>>

fetch_tokens_for_cpids(cpids) ==
  (IF "cp1" \in cpids THEN TokensOf("cp1") ELSE <<>>)
    \o (IF "cp2" \in cpids THEN TokensOf("cp2") ELSE <<>>)

fetch_all_tokens_directly == TokensOf("cp1") \o TokensOf("cp2")

\* variant: no lower limit on the length
validate_token_anylength(token) ==
  /\ token # None
  /\ LET t == strip(token)
     IN t.len < MaxLength /\ t.ws # "space" /\ t.len > 0

validate_token(token) ==
  /\ token # None
  /\ LET t == strip(token)
     IN MinLength < t.len /\ t.len < MaxLength /\ t.ws # "space" /\ t.len > 0

\* the loop that keeps the tuples whose token validate_token accepts
ValidTokens(fetched) == SelectSeq(fetched, validate_token)

\* the tokens a press fetches: all agents, or the agents of cpids
Fetched(method, cpids) ==
  IF method = "All Agents" THEN fetch_all_tokens_directly
  ELSE fetch_tokens_for_cpids(cpids)

\* variant: the check of the body is left out
Stops_nobody(title, body, method, cpids, valid_tokens) ==
  \/ title = ""
  \/ method # "All Agents" /\ cpids = {}
  \/ valid_tokens = <<>>

\* the st.stop() conditions of main_send_button
Stops(title, body, method, cpids, valid_tokens) ==
  \/ title = ""
  \/ body = ""
  \/ method # "All Agents" /\ cpids = {}
  \/ valid_tokens = <<>>

\* the cpIds a queued notification resolves to
ResolveCohorts(names, logic) ==
  IF Len(names) = 1 THEN Range(cohorts[names[1]])
  ELSE IF logic = "AND (all)"
    THEN {c \in CpIds : \A n \in DOMAIN names : c \in Range(cohorts[names[n]])}
    ELSE {c \in CpIds : \E n \in DOMAIN names : c \in Range(cohorts[names[n]])}

\* cohorts[c] raises KeyError for one of the names
MissingCohort(names) == \E n \in DOMAIN names : names[n] \notin DOMAIN cohorts

\* generate_campaign_id(): the wall clock, to the second
generate_campaign_id == clock

\* the dict handed to save_campaign by main_send_button and by bulk_send_all
CampaignData(id, name, title, body, valid_tokens, success_count, tags, logic) ==
  [campaign_id |-> id, campaign_name |-> name,
   title |-> title, body |-> body, timestamp |-> clock,
   total_sent |-> Len(valid_tokens), success |-> success_count,
   failed |-> Len(valid_tokens) - success_count,
   cohorts |-> tags, logic_type |-> logic]

\* the columns the Campaign History view selects from the stored records
ViewColumns ==
  {"campaign_id", "campaign_name", "title", "body", "cohorts", "logic",
   "timestamp", "total_sent", "total_failed", "duration_seconds"}

Titles == {"", "title"}

Bodies == {"", "body"}

Methods == {"All Agents", "Manual Input"}

CohortSelections == {<<>>, <<"A">>, <<"A", "B">>}

Logics == {"OR (any)", "AND (all)"}

\* what the widgets of a session hold: the Quick Send form and the bulk form
Forms ==
  [title : Titles, body : Bodies, recipient_method : Methods,
   selected_cp_ids : {{}, CpIds},
   bulk_title : Titles, bulk_body : Bodies,
   selected_bulk_cohorts : CohortSelections, bulk_logic : Logics]

\* both forms filled in
FilledForm ==
  [title |-> "title", body |-> "body", recipient_method |-> "All Agents",
   selected_cp_ids |-> {}, bulk_title |-> "title", bulk_body |-> "body",
   selected_bulk_cohorts |-> <<"A", "B">>, bulk_logic |-> "OR (any)"]

\* a token validate_token accepts
GoodToken == [len |-> MinLength + 1, pad |-> FALSE, ws |-> "none"]

\* a session whose script is waiting for a button press
IdleSession(form) ==
  [pc |-> "idle", form |-> form, edited_cp_ids |-> <<>>,
   bulk_notifications |-> <<>>, idx |-> 0,
   in_bulk |-> FALSE, campaign_data |-> None, campaigns |-> None]

\* one operator session: any content of the directory under filled-in
\* forms, or any content of the forms over a directory of good tokens
OperatorInit ==
  /\ \E form \in Forms, directory_content \in [CpIds -> FsmTokens] :
       /\ \/ form = FilledForm /\ directory_content["cp2"] \in {None, GoodToken}
          \/ directory_content = [c \in CpIds |-> GoodToken]
       /\ agents = directory_content
       /\ session = [s \in Sessions |->
                       IF s = "s1" THEN IdleSession(form)
                       ELSE [IdleSession(form) EXCEPT !.pc = "closed"]]
  /\ cohorts_file = TwoCohorts
  /\ campaigns_file = <<>>
  /\ clock = 0
  /\ request = None
  /\ saved = <<>>
  /\ sends = 0
  /\ EngineIdle
  /\ HandlerIdle
  /\ CallIdle

\* two operator sessions on one campaign store, every agent with a token
\* that validate_token accepts
SharedInit ==
  /\ agents = [c \in CpIds |-> GoodToken]
  /\ cohorts_file = TwoCohorts
  /\ campaigns_file = <<>>
  /\ clock = 0
  /\ session = [s \in Sessions |-> IdleSession(FilledForm)]
  /\ request = None
  /\ saved = <<>>
  /\ sends = 0
  /\ EngineIdle
  /\ HandlerIdle
  /\ CallIdle

\* a second passes
Tick ==
  /\ clock < MaxClock
  /\ clock' = clock + 1
  /\ UNCHANGED <<agents, cohorts_file, campaigns_file, session, request, saved, sends>>
  /\ UNCHANGED <<engine_vars, handled, call>>

\* the script run of session s calls send_notifications_parallel with
\* valid_tokens, which delivers to success of them, and then enters
\* save_campaign with the campaign record
SendThenSave(s, press, campaign_name, valid_tokens, success, cohort_tags, logic) ==
  /\ sends < MaxCampaigns
  /\ sends' = sends + 1
  /\ request' = [press EXCEPT !.valid_tokens = valid_tokens, !.saved = TRUE]
  /\ session' = [session EXCEPT
                   ![s].pc = "load",
                   ![s].campaign_data =
                      CampaignData(generate_campaign_id, campaign_name,
                                   press.title, press.body, valid_tokens,
                                   success, cohort_tags, logic)]

\* the SEND NOW button of Quick Send
main_send_button(s) ==
  /\ session[s].pc = "idle"
  /\ LET title == session[s].form.title
         body == session[s].form.body
         method == session[s].form.recipient_method
         cpids == session[s].form.selected_cp_ids
         press == [button |-> "main_send_button", title |-> title, body |-> body,
                   method |-> method, cpids |-> cpids,
                   valid_tokens |-> None, saved |-> FALSE,
                   raised |-> None]
         valid_tokens == ValidTokens(Fetched(method, cpids))
     IN IF Stops(title, body, method, cpids, valid_tokens)
          THEN /\ request' = press
               /\ UNCHANGED <<session, sends>>
          ELSE \E success \in 0..Len(valid_tokens) :
                 SendThenSave(s, press, title, valid_tokens, success,
                              IF method = "All Agents" THEN <<"All Agents">>
                              ELSE <<"Manual Input">>,
                              "OR (any)")
  /\ UNCHANGED <<agents, cohorts_file, campaigns_file, clock, saved>>
  /\ UNCHANGED <<engine_vars, handled, call>>

\* the Add to Queue button of the bulk form
add_bulk_notification(s) ==
  /\ session[s].pc = "idle"
  /\ LET bulk_title == session[s].form.bulk_title
         bulk_body == session[s].form.bulk_body
         selected_bulk_cohorts == session[s].form.selected_bulk_cohorts
         bulk_logic == session[s].form.bulk_logic
         cpids == IF selected_bulk_cohorts = <<>> \/ MissingCohort(selected_bulk_cohorts)
                    THEN {}
                  ELSE ResolveCohorts(selected_bulk_cohorts, bulk_logic)
     IN /\ request' = [button |-> "add_bulk_notification", title |-> bulk_title,
                       body |-> bulk_body, method |-> "Specific Cohorts",
                       cpids |-> cpids, valid_tokens |-> None, saved |-> FALSE,
                   raised |-> None]
        /\ cohorts # <<>>
        /\ ~MissingCohort(selected_bulk_cohorts)
        /\ IF bulk_title = "" \/ bulk_body = "" \/ selected_bulk_cohorts = <<>>
             THEN UNCHANGED session
             ELSE /\ Len(session[s].bulk_notifications) < MaxQueue
                  /\ session' = [session EXCEPT ![s].bulk_notifications =
                                   Append(@, [title |-> bulk_title, body |-> bulk_body,
                                              campaign_name |-> bulk_title,
                                              cohorts |-> selected_bulk_cohorts,
                                              logic |-> bulk_logic,
                                              recipient_count |-> Cardinality(cpids)])]
  /\ UNCHANGED <<agents, cohorts_file, campaigns_file, clock, saved, sends>>
  /\ UNCHANGED <<engine_vars, handled, call>>

\* the SEND ALL NOTIFICATIONS button: the loop over the queue starts
bulk_send_all(s) ==
  /\ session[s].pc = "idle"
  /\ cohorts # <<>>
  /\ session[s].bulk_notifications # <<>>
  /\ session' = [session EXCEPT ![s].pc = "bulk", ![s].idx = 0, ![s].in_bulk = TRUE]
  /\ UNCHANGED <<agents, cohorts_file, campaigns_file, clock, request, saved, sends>>
  /\ UNCHANGED <<engine_vars, handled, call>>

\* one iteration of the loop of bulk_send_all, up to the call of save_campaign
BulkItem(s) ==
  /\ session[s].pc = "bulk"
  /\ session[s].idx < Len(session[s].bulk_notifications)
  /\ LET notif == session[s].bulk_notifications[session[s].idx + 1]
         missing == MissingCohort(notif.cohorts)
         cpids == IF missing THEN {} ELSE ResolveCohorts(notif.cohorts, notif.logic)
         press == [button |-> "bulk_send_all", title |-> notif.title,
                   body |-> notif.body, method |-> "Specific Cohorts",
                   cpids |-> cpids, valid_tokens |-> None, saved |-> FALSE,
                   raised |-> None]
         valid_tokens == ValidTokens(fetch_tokens_for_cpids(cpids))
     IN IF missing
          THEN \* KeyError: the script run ends, the queue stays as it is
               /\ request' = [press EXCEPT !.raised = <<"KeyError">>]
               /\ session' = [session EXCEPT ![s].pc = "idle", ![s].idx = 0,
                                             ![s].in_bulk = FALSE]
               /\ UNCHANGED sends
        ELSE IF cpids = {} \/ valid_tokens = <<>>
          THEN /\ request' = press
               /\ session' = [session EXCEPT ![s].idx = @ + 1]
               /\ UNCHANGED sends
          ELSE \E success \in 0..Len(valid_tokens) :
                 SendThenSave(s, press, notif.campaign_name, valid_tokens, success,
                              notif.cohorts, notif.logic)
  /\ UNCHANGED <<agents, cohorts_file, campaigns_file, clock, saved>>
  /\ UNCHANGED <<engine_vars, handled, call>>

\* the loop of bulk_send_all is over: the queue is cleared
BulkDone(s) ==
  /\ session[s].pc = "bulk"
  /\ session[s].idx >= Len(session[s].bulk_notifications)
  /\ session' = [session EXCEPT ![s].pc = "idle", ![s].bulk_notifications = <<>>,
                                ![s].idx = 0, ![s].in_bulk = FALSE]
  /\ UNCHANGED <<agents, cohorts_file, campaigns_file, clock, request, saved, sends>>
  /\ UNCHANGED <<engine_vars, handled, call>>

\* save_campaign, first half: campaigns = load_campaigns()
LoadCampaigns(s) ==
  /\ session[s].pc = "load"
  /\ session' = [session EXCEPT ![s].pc = "write", ![s].campaigns = campaigns_file]
  /\ UNCHANGED <<agents, cohorts_file, campaigns_file, clock, request, saved, sends>>
  /\ UNCHANGED <<engine_vars, handled, call>>

\* save_campaign, second half: campaigns.append(campaign_data) and the file
\* is overwritten with campaigns; the script run goes on
WriteCampaigns(s) ==
  /\ session[s].pc = "write"
  /\ campaigns_file' = Append(session[s].campaigns, session[s].campaign_data)
  /\ saved' = Append(saved, session[s].campaign_data)
  /\ session' = [session EXCEPT
                   ![s].pc = IF session[s].in_bulk THEN "bulk" ELSE "idle",
                   ![s].idx = IF session[s].in_bulk THEN @ + 1 ELSE @,
                   ![s].campaign_data = None,
                   ![s].campaigns = None]
  /\ UNCHANGED <<agents, cohorts_file, clock, request, sends>>
  /\ UNCHANGED <<engine_vars, handled, call>>

AppNext ==
  \/ Tick
  \/ \E s \in Sessions : main_send_button(s)
  \/ \E s \in Sessions : add_bulk_notification(s)
  \/ \E s \in Sessions : bulk_send_all(s)
  \/ \E s \in Sessions : BulkItem(s)
  \/ \E s \in Sessions : BulkDone(s)
  \/ \E s \in Sessions : LoadCampaigns(s)
  \/ \E s \in Sessions : WriteCampaigns(s)

OperatorSpec == OperatorInit /\ [][AppNext]_vars

SharedSpec == SharedInit /\ [][AppNext]_vars

(* --------------------------- cohort management -------------------------- *)
\* the pieces of the editor text between commas and line ends: a cpId, a
\* cpId with blanks around it, or nothing
Lines == {"cp1", " cp1 ", "cp2", ""}

Texts == UNION {[1..n -> Lines] : n \in 0..MaxLines}

\* line.strip()
StripLine(line) == IF line = " cp1 " THEN "cp1" ELSE line

IsId(cp_id) == cp_id # ""

\* new_ids: the stripped, non-empty pieces of the text, in order
ParseIds(text) == SelectSeq([n \in DOMAIN text |-> StripLine(text[n])], IsId)

RECURSIVE unique_ids(_)

\* variant: every parsed id is kept
unique_ids_all(new_ids) == new_ids

\* the loop over new_ids with the set seen: first occurrences, in order
unique_ids(new_ids) ==
  IF new_ids = <<>> THEN <<>>
  ELSE LET front == unique_ids(SubSeq(new_ids, 1, Len(new_ids) - 1))
           cp_id == new_ids[Len(new_ids)]
       IN IF cp_id \in Range(front) THEN front ELSE Append(front, cp_id)

\* variant: an existing cohort is created again
CanCreate_overwrite(new_cohort, store) == new_cohort # ""

\* if new_cohort and new_cohort not in cohorts
CanCreate(new_cohort, store) == new_cohort # "" /\ new_cohort \notin DOMAIN store

\* a press of a button of the Cohorts tab; error holds the messages shown
\* with st.error, saved tells whether save_cohorts was called
CohortPress(button, name, error, wrote) ==
  [button |-> button, cohort |-> name, error |-> error, saved |-> wrote]

\* the Create button
CreateCohort(s, new_cohort) ==
  /\ session[s].pc = "idle"
  /\ IF CanCreate(new_cohort, cohorts)
       THEN /\ cohorts_file' = [n \in DOMAIN cohorts \cup {new_cohort} |->
                                  IF n = new_cohort THEN <<>> ELSE cohorts[n]]
            /\ request' = CohortPress("Create", new_cohort, None, TRUE)
       ELSE /\ request' = CohortPress("Create", new_cohort,
                                      IF new_cohort \in DOMAIN cohorts
                                        THEN <<"Already exists!">> ELSE <<"Enter name!">>,
                                      FALSE)
            /\ UNCHANGED cohorts_file
  /\ UNCHANGED <<agents, campaigns_file, clock, session, saved, sends>>
  /\ UNCHANGED <<engine_vars, handled, call>>

\* the Save Changes button of the cohort selected for editing
SaveChanges(s, cohort_to_edit) ==
  /\ session[s].pc = "idle"
  /\ cohort_to_edit \in DOMAIN cohorts
  /\ cohorts_file' = [cohorts EXCEPT ![cohort_to_edit] =
                        unique_ids(ParseIds(session[s].edited_cp_ids))]
  /\ request' = CohortPress("Save Changes", cohort_to_edit, None, TRUE)
  /\ UNCHANGED <<agents, campaigns_file, clock, session, saved, sends>>
  /\ UNCHANGED <<engine_vars, handled, call>>

\* the Clear All button
ClearAll(s, cohort_to_edit) ==
  /\ session[s].pc = "idle"
  /\ cohort_to_edit \in DOMAIN cohorts
  /\ cohorts_file' = [cohorts EXCEPT ![cohort_to_edit] = <<>>]
  /\ request' = CohortPress("Clear All", cohort_to_edit, None, TRUE)
  /\ UNCHANGED <<agents, campaigns_file, clock, session, saved, sends>>
  /\ UNCHANGED <<engine_vars, handled, call>>

\* the Delete Cohort button
DeleteCohort(s, cohort_to_edit) ==
  /\ session[s].pc = "idle"
  /\ cohort_to_edit \in DOMAIN cohorts
  /\ cohorts_file' = [n \in DOMAIN cohorts \ {cohort_to_edit} |-> cohorts[n]]
  /\ request' = CohortPress("Delete Cohort", cohort_to_edit, None, TRUE)
  /\ UNCHANGED <<agents, campaigns_file, clock, session, saved, sends>>
  /\ UNCHANGED <<engine_vars, handled, call>>

\* one operator session on an empty cohort store, with one of the given
\* texts in the cohort editor and one of the given selections in the bulk form
CohortStart(texts, selections) ==
  /\ \E text \in texts, selected \in selections :
       session = [s \in Sessions |->
                    LET form == [FilledForm EXCEPT !.selected_bulk_cohorts = selected]
                        fresh == [IdleSession(form) EXCEPT !.edited_cp_ids = text]
                    IN IF s = "s1" THEN fresh ELSE [fresh EXCEPT !.pc = "closed"]]
  /\ agents = [c \in CpIds |-> GoodToken]
  /\ cohorts_file = <<>>
  /\ campaigns_file = <<>>
  /\ clock = 0
  /\ request = None
  /\ saved = <<>>
  /\ sends = 0
  /\ EngineIdle
  /\ HandlerIdle
  /\ CallIdle

\* the Cohorts tab alone, with any text in the editor
CohortInit == CohortStart(Texts, {<<"A", "B">>})

CohortNext ==
  \/ \E s \in Sessions, new_cohort \in CohortNames \cup {""} : CreateCohort(s, new_cohort)
  \/ \E s \in Sessions, cohort_to_edit \in CohortNames : SaveChanges(s, cohort_to_edit)
  \/ \E s \in Sessions, cohort_to_edit \in CohortNames : ClearAll(s, cohort_to_edit)
  \/ \E s \in Sessions, cohort_to_edit \in CohortNames : DeleteCohort(s, cohort_to_edit)

CohortSpec == CohortInit /\ [][CohortNext]_vars

\* the Cohorts tab and the Bulk Send tab of one session, the editor holding
\* one or two ids
BulkCohortInit == CohortStart({<<"cp1">>, <<"cp1", "cp2">>}, {<<"A">>, <<"A", "B">>})

BulkCohortNext ==
  \/ \E s \in Sessions, new_cohort \in CohortNames \cup {""} : CreateCohort(s, new_cohort)
  \/ \E s \in Sessions, cohort_to_edit \in CohortNames : SaveChanges(s, cohort_to_edit)
  \/ \E s \in Sessions, cohort_to_edit \in CohortNames : ClearAll(s, cohort_to_edit)
  \/ \E s \in Sessions, cohort_to_edit \in CohortNames : DeleteCohort(s, cohort_to_edit)
  \/ \E s \in Sessions : add_bulk_notification(s)
  \/ \E s \in Sessions : bulk_send_all(s)
  \/ \E s \in Sessions : BulkItem(s)
  \/ \E s \in Sessions : BulkDone(s)
  \/ \E s \in Sessions : LoadCampaigns(s)
  \/ \E s \in Sessions : WriteCampaigns(s)

BulkCohortSpec == BulkCohortInit /\ [][BulkCohortNext]_vars

(* ---------------- token classification and personalisation -------------- *)
\* the literals of detect_token_type
UnknownBelow == 10

ModernAbove == 140

LegacyAndroid == {"APA91b", "AAAA"}

CommonIos == {"f", "d", "e", "c"}

\* what a string starts with: a legacy prefix, one of the iOS first
\* characters, any other first character (x), or nothing
Starts == LegacyAndroid \cup CommonIos \cup {"x", ""}

StartLen(first) ==
  IF first = "APA91b" THEN 6 ELSE IF first = "AAAA" THEN 4 ELSE IF first = "" THEN 0 ELSE 1

\* strings as detect_token_type and the fetch functions see them: the
\* fields of Strings and the start of the stripped string
TokenStrings ==
  {t \in [len : {0, 1, UnknownBelow - 1, UnknownBelow, MinLength + 1,
                 ModernAbove, ModernAbove + 1, MaxLength},
          pad : BOOLEAN, ws : {"none", "space", "tab"}, first : Starts] :
     /\ (t.len = 0) <=> (t.first = "")
     /\ StartLen(t.first) <= t.len
     /\ (t.ws # "none") => (t.len >= StartLen(t.first) + 2)}

\* variant: the length rule is tried before the prefix rules
detect_token_type_lengthfirst(token) ==
  IF token.len = 0 \/ token.len < UnknownBelow THEN "unknown"
  ELSE IF token.len > ModernAbove THEN "fcm"
  ELSE IF token.first \in LegacyAndroid THEN "android"
  ELSE IF token.first \in CommonIos THEN "ios"
  ELSE "android"

\* token is a string without leading or trailing whitespace
detect_token_type(token) ==
  IF token.len = 0 \/ token.len < UnknownBelow THEN "unknown"
  ELSE IF token.first \in LegacyAndroid THEN "android"
  ELSE IF token.first \in CommonIos THEN "ios"
  ELSE IF token.len > ModernAbove THEN "fcm"
  ELSE "android"

\* the tuples the fetch functions append: the stripped token with its type
Tuples(fetched) ==
  [n \in DOMAIN fetched |->
     [token |-> fetched[n], token_type |-> detect_token_type(fetched[n])]]

IsValid(tuple) == validate_token(tuple.token)

\* the validation loop over the fetched tuples
ValidTuples(fetched) == SelectSeq(Tuples(fetched), IsValid)

\* names and notification texts: a name is a string of up to MaxName
\* characters, a text a string of one or two pieces, each a placeholder or
\* plain characters
Chars == {"a", "b", " "}

Names == UNION {[1..n -> Chars] : n \in 0..MaxName}

FullNamePlaceholders == {"{name}", "{Name}"}

FirstNamePlaceholders == {"{firstname}", "{firstName}", "{Firstname}", "{FirstName}"}

Pieces ==
  [key : FullNamePlaceholders \cup FirstNamePlaceholders, chars : {<<>>}]
    \cup {[key |-> "", chars |-> <<"a">>]}

Templates == UNION {[1..n -> Pieces] : n \in 1..2}

IsSpace(c) == c = " "

\* name.split() is not empty
HasWord(name) == \E n \in DOMAIN name : ~IsSpace(name[n])

\* name.split()[0]: the first run of characters that are not whitespace
FirstWord(name) ==
  LET a == CHOOSE n \in DOMAIN name :
             ~IsSpace(name[n]) /\ \A m \in 1..(n - 1) : IsSpace(name[m])
      b == CHOOSE n \in a..Len(name) :
             /\ \A m \in a..n : ~IsSpace(name[m])
             /\ n = Len(name) \/ IsSpace(name[n + 1])
  IN SubSeq(name, a, b)

\* the outcome of the call: the exception raised, if any, and else the
\* text as given (empty name) or, piece by piece, what stands in its place
personalize_text(text, name) ==
  IF name = <<>> THEN [raised |-> <<>>, value |-> text]
  ELSE IF ~HasWord(name) THEN [raised |-> <<"IndexError">>, value |-> <<>>]
  ELSE LET firstname == FirstWord(name)
       IN [raised |-> <<>>,
           value |-> [n \in DOMAIN text |->
                        IF text[n].key \in FullNamePlaceholders THEN name
                        ELSE IF text[n].key \in FirstNamePlaceholders THEN firstname
                        ELSE text[n].chars]]

\* one call: of detect_token_type on a stripped string, of personalize_text
\* on a text and a name, or of a fetch with the validation loop on a
\* directory with one agent
CallInit ==
  /\ \/ /\ call \in [fn : {"detect_token_type"},
                     token : {t \in TokenStrings : ~t.pad},
                     returned : {FALSE}, result : {""}]
        /\ agents = <<>>
     \/ /\ call \in [fn : {"personalize_text"}, text : Templates, name : Names,
                     returned : {FALSE}, result : {<<>>}]
        /\ agents = <<>>
     \/ /\ call \in [fn : {"fetch"}, method : {"All Agents", "Manual Input"},
                     returned : {FALSE}, result : {<<>>}]
        /\ \E raw \in TokenStrings \cup {None} :
             agents = [c \in CpIds |-> IF c = "cp1" THEN raw ELSE None]
  /\ cohorts_file = <<>>
  /\ campaigns_file = <<>>
  /\ clock = 0
  /\ session = <<>>
  /\ request = None
  /\ saved = <<>>
  /\ sends = 0
  /\ EngineIdle
  /\ HandlerIdle

Classify ==
  /\ call.fn = "detect_token_type" /\ ~call.returned
  /\ call' = [call EXCEPT !.returned = TRUE, !.result = detect_token_type(call.token)]
  /\ UNCHANGED <<engine_vars, handled, store_vars>>

Personalize ==
  /\ call.fn = "personalize_text" /\ ~call.returned
  /\ call' = [call EXCEPT !.returned = TRUE,
                          !.result = personalize_text(call.text, call.name)]
  /\ UNCHANGED <<engine_vars, handled, store_vars>>

\* the fetch of the chosen recipients, then the validation loop
Resolve ==
  /\ call.fn = "fetch" /\ ~call.returned
  /\ call' = [call EXCEPT !.returned = TRUE,
                          !.result = ValidTuples(Fetched(call.method, CpIds))]
  /\ UNCHANGED <<engine_vars, handled, store_vars>>

CallNext == Classify \/ Personalize \/ Resolve

CallSpec == CallInit /\ [][CallNext]_vars

(* ------------------------- auxiliary operators ------------------------- *)
RECURSIVE TokensIn(_)
\* number of tokens in the batches of the futures listed in bs
TokensIn(bs) ==
  IF bs = <<>> THEN 0
  ELSE Len(futures[Head(bs)].batch_tokens) + TokensIn(Tail(bs))

RECURSIVE SumField(_, _)
\* sum of one counter over the partial summaries of futures 1..n
SumField(key, n) ==
  IF n = 0 THEN 0 ELSE futures[n].batch_results[key] + SumField(key, n - 1)

RECURSIVE SeqBag(_)
\* the multiset of the elements of a sequence
SeqBag(sq) ==
  IF sq = <<>> THEN EmptyBag ELSE SetToBag({Head(sq)}) (+) SeqBag(Tail(sq))

RECURSIVE ErrorBag(_)
\* the multiset of the error records of futures 1..n
ErrorBag(n) ==
  IF n = 0 THEN EmptyBag ELSE SeqBag(futures[n].batch_errors) (+) ErrorBag(n - 1)

RECURSIVE Flatten(_)
\* the batches of futures 1..n, concatenated in submission order
Flatten(n) ==
  IF n = 0 THEN <<>> ELSE Flatten(n - 1) \o futures[n].batch_tokens

CeilDiv(n, d) == (n + d - 1) \div d

Min(a, b) == IF a < b THEN a ELSE b

Attempted(k) == attempts[k] # <<>>

Delivered(k) == \E n \in DOMAIN attempts[k] : attempts[k][n].response = "ok"

Failed(k) == Attempted(k) /\ ~Delivered(k)

\* the tokens whose send met an explicit terminal signal
Terminal(k) ==
  \E n \in DOMAIN attempts[k] :
    /\ IsFirebaseError(attempts[k][n].response)
    /\ HasTerminalSignal(ErrorOf(attempts[k][n].response))

RecordsOf(k, errs) == Cardinality({n \in DOMAIN errs : errs[n][1] = k})

Counted(s) == s.success + s.errors + s.pruned

AllCompleted ==
  /\ Len(futures) = CeilDiv(total_tokens, batch_size)
  /\ \A b \in DOMAIN futures : futures[b].state = "finished"

(* ------------------------------- claims -------------------------------- *)
\* C1: conservation of tokens. At every point of the aggregation loop
\* success + errors + pruned of the running summary equals the number of
\* tokens of the batches merged so far, and at the return it equals the
\* length of the input token list.
C1_Conservation ==
  /\ Counted(summary) = TokensIn(yielded)
  /\ pc = "done" => Counted(summary) = total_tokens

\* C1 witness: two batches merged out of submission order, one token
\* delivered and one failed
C1_Witness ==
  /\ pc = "done"
  /\ yielded = <<2, 1>>
  /\ summary.success = 1
  /\ summary.errors = 1

SuccessSplit(s) == s.success = s.ios_success + s.android_success + s.fcm_success

\* C2: in every partial batch summary and in the running and final summary,
\* success = ios_success + android_success + fcm_success, for every token
\* channel and every platform override.
C2_SuccessSplit ==
  /\ SuccessSplit(summary)
  /\ \A b \in DOMAIN futures : SuccessSplit(futures[b].batch_results)

\* C2 witness: under the iOS override an unknown and an fcm token were
\* delivered and merged
C2_Witness ==
  /\ pc = "done"
  /\ force_platform = "iOS"
  /\ Range(tokens) = {"unknown", "fcm"}
  /\ summary.success = 2

\* C3: a token whose send fails with an explicit terminal signal increments
\* the pruned counter of its batch summary and not the errors counter.
C3_TerminalCountedAsPruned ==
  \A b \in DOMAIN futures :
    LET mine == Range(futures[b].batch_tokens)
    IN /\ futures[b].batch_results.pruned =
            Cardinality({k \in mine : Failed(k) /\ Terminal(k)})
       /\ futures[b].batch_results.errors =
            Cardinality({k \in mine : Failed(k) /\ ~Terminal(k)})

\* C4: at the return the error list holds exactly one record for each token
\* whose send did not succeed and none for a delivered token, so its length
\* is total tokens minus summary.success.
C4_ErrorListExact ==
  pc = "done" =>
    /\ \A k \in DOMAIN tokens :
         RecordsOf(k, errors_list) = IF Delivered(k) THEN 0 ELSE 1
    /\ Len(errors_list) = total_tokens - summary.success

\* C4 witness: a run returned with one delivered token and one token that
\* met a terminal signal
C4_Witness ==
  /\ pc = "done"
  /\ total_tokens = 2
  /\ Delivered(1)
  /\ Terminal(2)
  /\ Failed(2)

\* C5: the final summary and the multiset of error records depend on the
\* per-token outcomes only, not on the order in which the batches complete:
\* they equal the field-wise sum and the multiset union of the partial
\* results taken in submission order, and success counts the delivered
\* tokens.
C5_OrderIndependent ==
  pc = "done" =>
    /\ \A key \in SummaryKeys : summary[key] = SumField(key, Len(futures))
    /\ SeqBag(errors_list) = ErrorBag(Len(futures))
    /\ summary.success = Cardinality({k \in DOMAIN tokens : Delivered(k)})
    /\ summary.errors + summary.pruned =
         Cardinality({k \in DOMAIN tokens : Failed(k)})

\* C5 witness: the second batch was merged before the first, each with an
\* error record
C5_Witness ==
  /\ pc = "done"
  /\ yielded = <<2, 1>>
  /\ futures[1].batch_errors # <<>>
  /\ futures[2].batch_errors # <<>>

\* C6: the coordinator submits ceil(N/B) batches, each a contiguous slice of
\* B tokens except possibly the last; concatenated in submission order they
\* are the input list; with B >= N > 0 there is one batch.
C6_Partition ==
  /\ \A b \in DOMAIN futures :
       futures[b].batch_tokens =
         [k \in 1..Min(batch_size, total_tokens - (b - 1) * batch_size)
            |-> (b - 1) * batch_size + k]
  /\ pc # "submit" =>
       /\ Len(futures) = CeilDiv(total_tokens, batch_size)
       /\ Flatten(Len(futures)) = [k \in 1..total_tokens |-> k]
       /\ \A b \in 1..(Len(futures) - 1) :
            Len(futures[b].batch_tokens) = batch_size
       /\ (batch_size >= total_tokens /\ total_tokens > 0) => Len(futures) = 1

\* C6 witness: three tokens in batches of two, the last batch shorter
C6_Witness ==
  /\ pc = "collect"
  /\ total_tokens = 3
  /\ batch_size = 2
  /\ Len(futures) = 2
  /\ Len(futures[2].batch_tokens) = 1

\* C7: at every moment the number of batches being executed is at most
\* max_workers, and a batch that no worker has taken has sent nothing.
C7_BoundedParallelism ==
  /\ Cardinality(Running) <= max_workers
  /\ \A b \in Pending : futures[b].pos = 0 /\ futures[b].batch_results = ZeroSummary

\* C7 witness: every worker is busy while a submitted batch waits
C7_Witness ==
  /\ Cardinality(Running) = max_workers
  /\ Pending # {}

\* C8: the run eventually reaches Done, and it is Done only when every
\* submitted batch has completed, none skipped.
C8_Termination ==
  /\ <>(pc = "done")
  /\ [](pc = "done" => AllCompleted)

\* C8 witness: a run with more workers than batches has returned
C8_Witness ==
  /\ pc = "done"
  /\ Len(futures) >= 1
  /\ max_workers > Len(futures)

\* C9: after each batch completion the progress value equals (tokens of the
\* batches completed so far) / (total tokens).
C9_ProgressIsCompletedFraction ==
  yielded # <<>> =>
    progress[1] * total_tokens = TokensIn(yielded) * progress[2]

\* C10: a failed send is recorded as one error for its token and aborts
\* nothing: every token of a completed batch has been attempted, each failed
\* token has one error record and one error count, and at the return every
\* token of the input has been attempted.
C10_FailureContained ==
  /\ \A b \in DOMAIN futures :
       LET mine == Range(futures[b].batch_tokens)
       IN /\ futures[b].state = "finished" => \A k \in mine : Attempted(k)
          /\ \A k \in mine :
               Failed(k) => RecordsOf(k, futures[b].batch_errors) = 1
          /\ futures[b].batch_results.errors + futures[b].batch_results.pruned =
               Cardinality({k \in mine : Failed(k)})
  /\ pc = "done" => \A k \in DOMAIN tokens : Attempted(k)

\* C10 witness: the first token of a batch of two raised an exception and
\* the second was delivered afterwards
C10_Witness ==
  /\ pc = "done"
  /\ Len(futures) = 1
  /\ total_tokens = 2
  /\ attempts[1][1].response = "exception"
  /\ Delivered(2)

\* C11: no retry. Within one run at most one send is made for each entry of
\* the input list, also after a failure, and each entry is in one submitted
\* batch only.
C11_NoRetry ==
  /\ \A k \in DOMAIN tokens : Len(attempts[k]) <= 1
  /\ \A k \in DOMAIN tokens :
       Cardinality({b \in DOMAIN futures : k \in Range(futures[b].batch_tokens)}) <= 1
  /\ \A b \in DOMAIN futures :
       futures[b].pos = Cardinality({k \in Range(futures[b].batch_tokens) : Attempted(k)})

\* C11 witness: the run returned with a token whose single send failed
\* transiently and one whose single send met a terminal signal
C11_Witness ==
  /\ pc = "done"
  /\ total_tokens = 2
  /\ attempts[1] = <<[branch |-> {"android"}, response |-> "unavailable"]>>
  /\ Terminal(2)
  /\ Len(attempts[2]) = 1

\* C12: every message built for the transport carries exactly one platform
\* block: the APNs block if and only if the effective channel is ios, the
\* Android block for effective channel android, fcm or unknown.
C12_OneBranch ==
  \A k \in DOMAIN tokens : \A n \in DOMAIN attempts[k] :
    LET blocks == attempts[k][n].branch
        effective == IF force_platform = "Android" THEN "android"
                     ELSE IF force_platform = "iOS" THEN "ios"
                     ELSE tokens[k]
    IN /\ Cardinality(blocks) = 1
       /\ blocks \subseteq {"apns", "android"}
       /\ "apns" \in blocks <=> effective = "ios"
       /\ "android" \in blocks <=> effective \in {"android", "fcm", "unknown"}

\* C12 witness: without override an ios token got the APNs block and an
\* unknown token the Android block
C12_Witness ==
  /\ force_platform = "Auto-detect"
  /\ total_tokens = 2
  /\ tokens[1] = "ios" /\ Attempted(1) /\ attempts[1][1].branch = {"apns"}
  /\ tokens[2] = "unknown" /\ Attempted(2) /\ attempts[2][1].branch = {"android"}

Returned == handled # None /\ handled.error_info # None

\* the returned tuple reports an invalid/expired token
ReportedInvalid ==
  handled.error_info[2] = "Invalid/expired token detected (not pruned)"

\* C14: a FirebaseError whose message contains "invalid-registration-token"
\* or "unregistered", or whose code is not_found, and which is not an
\* authentication error of the other channel, is reported as an
\* invalid/expired token for every channel, ios included; every other
\* FirebaseError is reported as a transient error.
C14_TerminalClassification ==
  Returned =>
    LET channel == EffectiveType(handled.token_type, handled.forced)
        mismatch == channel # "ios" /\ IsChannelAuthError(handled.e)
    IN ReportedInvalid <=> (HasTerminalSignal(handled.e) /\ ~mismatch)

Dispatched == request # None /\ request.valid_tokens # None

\* C17: every token handed to send_notifications_parallel by Quick Send or
\* by bulk send is a non-empty string whose length is strictly between 10
\* and 4096 and that contains no whitespace character of any kind.
C17_PreFilter ==
  Dispatched =>
    \A k \in DOMAIN request.valid_tokens :
      LET token == request.valid_tokens[k]
      IN /\ token # None
         /\ token.len > 0
         /\ MinLength < token.len /\ token.len < MaxLength
         /\ ~token.pad /\ token.ws = "none"

\* no token fetched for the press passes validate_token
NoValidToken(press) ==
  \A k \in DOMAIN Fetched(press.method, press.cpids) :
    ~validate_token(Fetched(press.method, press.cpids)[k])

\* C18: a press with an empty title or body, with no recipient selected, or
\* for which no fetched token passes the pre-filter never calls
\* send_notifications_parallel and never calls save_campaign.
C18_FailFast ==
  request # None =>
    ((\/ request.title = ""
      \/ request.body = ""
      \/ request.method # "All Agents" /\ request.cpids = {}
      \/ NoValidToken(request))
       => (request.valid_tokens = None /\ ~request.saved))

\* C18 witness: after one campaign was sent and stored, a Quick Send press
\* with an empty body was stopped, sending and storing nothing more
C18_Witness ==
  /\ request # None
  /\ request.button = "main_send_button"
  /\ request.title # "" /\ request.body = ""
  /\ request.method = "All Agents"
  /\ ~NoValidToken(request)
  /\ request.valid_tokens = None
  /\ sends = 1
  /\ campaigns_file = saved /\ Len(saved) = 1
  /\ \A s \in Sessions : session[s].campaign_data = None

\* C19: the campaign store is append-only under any interleaving of the
\* save_campaign calls of the sessions: it holds, in the order of their
\* completion, exactly the records of the save_campaign calls that returned.
C19_AppendOnly == campaigns_file = saved

\* C20: every stored campaign record carries the fields the Campaign
\* History view reads: campaign_id, campaign_name, title, body, cohorts,
\* logic, timestamp, total_sent, total_failed and duration_seconds.
C20_RecordFields ==
  \A k \in DOMAIN campaigns_file : ViewColumns \subseteq DOMAIN campaigns_file[k]

\* C26: within a batch the sends are made one after the other in input
\* order: at every moment the tokens of a batch that were sent to are its
\* first pos tokens, each sent to once, and the positions of a batch increase.
C26_SequentialInBatch ==
  \A b \in DOMAIN futures :
    LET f == futures[b]
    IN /\ \A n \in DOMAIN f.batch_tokens :
            Len(attempts[f.batch_tokens[n]]) = IF n <= f.pos THEN 1 ELSE 0
       /\ \A m, n \in DOMAIN f.batch_tokens : m < n => f.batch_tokens[m] < f.batch_tokens[n]
       /\ f.state = "pending" => f.pos = 0

\* C26 witness: a batch of two tokens has sent to its first token and not
\* yet to its second, while another batch is running too
C26_Witness ==
  \E b, c \in Running :
    /\ b # c
    /\ Len(futures[b].batch_tokens) = 2
    /\ futures[b].pos = 1
    /\ Attempted(futures[b].batch_tokens[1])
    /\ ~Attempted(futures[b].batch_tokens[2])

\* the partial summary and error list of future b
Partial(fs, b) == <<fs[b].batch_results, fs[b].batch_errors>>

\* C27: the running summary and the global error list change only in a step
\* of the completion loop, which merges one future; a step of a worker
\* changes the partial results of its own batch only; and the partial
\* results of a batch that has returned or was merged never change again.
C27_SingleWriter ==
  [][/\ (summary' # summary \/ errors_list' # errors_list) =>
          /\ pc = "collect"
          /\ Len(yielded') = Len(yielded) + 1
          /\ futures' = futures
     /\ Len(yielded') <= Len(yielded) + 1
     /\ \A b, c \in DOMAIN futures :
          (Partial(futures', b) # Partial(futures, b) /\ b # c)
            => Partial(futures', c) = Partial(futures, c)
     /\ \A b \in DOMAIN futures :
          (futures[b].state = "finished" \/ b \in Range(yielded))
            => Partial(futures', b) = Partial(futures, b)]_vars

\* C27 witness: one future was merged into a non-zero summary while another
\* batch is still being sent
C27_Witness ==
  /\ Len(yielded) = 1
  /\ Counted(summary) > 0
  /\ \E b \in Running : futures[b].pos = 1 /\ Len(futures[b].batch_tokens) = 2

RECURSIVE ErrorsInOrder(_)
\* the error lists of the futures yielded, concatenated in yield order
ErrorsInOrder(ys) ==
  IF ys = <<>> THEN <<>>
  ELSE futures[Head(ys)].batch_errors \o ErrorsInOrder(Tail(ys))

\* the batch the token at input position k was sliced into
BatchOf(k) == CHOOSE b \in DOMAIN futures : k \in Range(futures[b].batch_tokens)

\* position of future b in the order of completion
YieldIndex(b) == CHOOSE n \in DOMAIN yielded : yielded[n] = b

\* C28: in the error list the records of one batch are contiguous and in the
\* input order of their tokens, and the blocks of the batches are in the
\* order in which the batches were yielded by as_completed.
C28_ErrorOrder ==
  /\ errors_list = ErrorsInOrder(yielded)
  /\ \A m, n \in DOMAIN errors_list :
       m < n =>
         LET bm == BatchOf(errors_list[m][1])
             bn == BatchOf(errors_list[n][1])
         IN IF bm = bn THEN errors_list[m][1] < errors_list[n][1]
            ELSE YieldIndex(bm) < YieldIndex(bn)

\* C28 witness: the run returned with the second batch merged before the
\* first, the error of the second batch ahead of the two errors of the first
C28_Witness ==
  /\ pc = "done"
  /\ yielded = <<2, 1>>
  /\ Len(errors_list) = 3
  /\ errors_list[1][1] = 3 /\ errors_list[2][1] = 1 /\ errors_list[3][1] = 2

\* C21: campaign ids are unique: no two records of the campaign store share
\* a campaign_id.
C21_UniqueCampaignIds ==
  \A m, n \in DOMAIN campaigns_file :
    m # n => campaigns_file[m].campaign_id # campaigns_file[n].campaign_id

\* first position of cp_id among the stripped pieces of the text
FirstAt(text, cp_id) ==
  CHOOSE n \in DOMAIN text :
    /\ StripLine(text[n]) = cp_id
    /\ \A m \in 1..(n - 1) : StripLine(text[m]) # cp_id

\* C22: every stored cohort's member list has no repeated id, and right
\* after Save Changes the list holds the ids of the edited text, each once,
\* in the order of their first occurrence in the text.
C22_NoDuplicateMembers ==
  /\ \A name \in DOMAIN cohorts_file :
       \A m, n \in DOMAIN cohorts_file[name] :
         m # n => cohorts_file[name][m] # cohorts_file[name][n]
  /\ (request # None /\ request.button = "Save Changes") =>
       LET ids == cohorts_file[request.cohort]
           text == session["s1"].edited_cp_ids
       IN /\ Range(ids) = {StripLine(text[n]) : n \in DOMAIN text} \ {""}
          /\ \A m, n \in DOMAIN ids :
               m < n => FirstAt(text, ids[m]) < FirstAt(text, ids[n])

\* C22 witness: Save Changes on a text that names cp2, then cp1 twice, once
\* with blanks around it, stored cp2 before cp1
C22_Witness ==
  /\ request # None /\ request.button = "Save Changes"
  /\ session["s1"].edited_cp_ids = <<"cp2", " cp1 ", "cp1">>
  /\ cohorts_file[request.cohort] = <<"cp2", "cp1">>

\* C23: Create with a name already in the store or with an empty name
\* reports an error, writes nothing and leaves the store as it is; Create
\* with a new non-empty name adds that cohort with an empty member list and
\* changes no other cohort.
C23_CreateUniqueName ==
  [][(request' # request /\ request'.button = "Create") =>
       LET name == request'.cohort
       IN IF name = "" \/ name \in DOMAIN cohorts_file
            THEN /\ cohorts_file' = cohorts_file
                 /\ request'.error # None
                 /\ ~request'.saved
            ELSE /\ DOMAIN cohorts_file' = DOMAIN cohorts_file \cup {name}
                 /\ cohorts_file'[name] = <<>>
                 /\ \A other \in DOMAIN cohorts_file :
                      cohorts_file'[other] = cohorts_file[other]
                 /\ request'.error = None]_vars

\* C23 witness: Create of a name that is in the store with members was
\* refused, the store still holding the members
C23_Witness ==
  /\ request # None /\ request.button = "Create"
  /\ request.cohort = "A" /\ request.error = <<"Already exists!">>
  /\ "A" \in DOMAIN cohorts_file /\ cohorts_file["A"] # <<>>
  /\ "B" \in DOMAIN cohorts_file

\* C30: whenever SEND ALL is about to resolve the recipients of a queued
\* notification, every cohort name the notification refers to is in the
\* cohort store.
C30_QueuedCohortsExist ==
  \A s \in Sessions :
    (session[s].pc = "bulk" /\ session[s].idx < Len(session[s].bulk_notifications))
      => ~MissingCohort(session[s].bulk_notifications[session[s].idx + 1].cohorts)

\* a call of fn has returned
Called(fn) == call # None /\ call.fn = fn /\ call.returned

\* C24: the classification tries the rules in order: empty or shorter than
\* 10 gives unknown; else a legacy Android prefix gives android; else one of
\* the first characters f, d, e, c gives ios; else longer than 140 gives fcm;
\* else android. A prefix rule wins over the length rule.
C24_ClassificationRules ==
  Called("detect_token_type") =>
    LET t == call.token
        long == t.len >= 10
        legacy == t.first \in {"APA91b", "AAAA"}
        ios == t.first \in {"f", "d", "e", "c"}
    IN /\ ~long => call.result = "unknown"
       /\ (long /\ legacy) => call.result = "android"
       /\ (long /\ ~legacy /\ ios) => call.result = "ios"
       /\ (long /\ ~legacy /\ ~ios /\ t.len > 140) => call.result = "fcm"
       /\ (long /\ ~legacy /\ ~ios /\ t.len <= 140) => call.result = "android"

\* C24 witness: a token longer than 140 characters with a legacy Android
\* prefix was classified android
C24_Witness ==
  /\ Called("detect_token_type")
  /\ call.token.len > 140 /\ call.token.first = "APA91b"
  /\ call.result = "android"

\* the prefix of name up to, and without, its first whitespace character
BeforeFirstSpace(name) ==
  IF \E n \in DOMAIN name : IsSpace(name[n])
    THEN SubSeq(name, 1, (CHOOSE n \in DOMAIN name :
                            IsSpace(name[n]) /\ \A m \in 1..(n - 1) : ~IsSpace(name[m])) - 1)
    ELSE name

\* C25: for every non-empty name, personalize_text returns without raising,
\* with each first-name placeholder replaced by the prefix of name before
\* its first whitespace character and each full-name placeholder by name.
C25_Personalize ==
  (Called("personalize_text") /\ call.name # <<>>) =>
    /\ call.result.raised = <<>>
    /\ \A n \in DOMAIN call.text :
         /\ call.text[n].key \in FirstNamePlaceholders
              => call.result.value[n] = BeforeFirstSpace(call.name)
         /\ call.text[n].key \in FullNamePlaceholders
              => call.result.value[n] = call.name

\* C29: every tuple that the validation loop hands to the fan-out was
\* classified android, ios or fcm by the fetch.
C29_NoUnknownChannel ==
  Called("fetch") =>
    \A n \in DOMAIN call.result :
      call.result[n].token_type \in {"android", "ios", "fcm"}

\* C29 witness: an fsmToken of 11 characters with whitespace around it was
\* fetched, classified and handed on, while the field as stored would not
\* have been classified the same way
C29_Witness ==
  /\ Called("fetch")
  /\ agents["cp1"] # None /\ agents["cp1"].pad /\ agents["cp1"].len = MinLength + 1
  /\ Len(call.result) = 1
  /\ call.result[1].token = strip(agents["cp1"])

====
